---- MODULE Spec2Model ----
(***************************************************************************)
(* WhatConnects: room-scoped live-session coordination.                    *)
(*                                                                         *)
(* The model follows backend/apps: the HTTP views of rooms and games, the  *)
(* WebSocket consumer, and the models they call.  One room is modelled.    *)
(* Every view or consumer database method that runs in transaction.atomic  *)
(* is a transaction: its first step takes the row locks of its             *)
(* select_for_update calls and performs its reads and checks, its last     *)
(* step applies its writes and commits.  Writes of a transaction are       *)
(* invisible to the others until it commits (PostgreSQL READ COMMITTED),   *)
(* and a transaction that raises is rolled back.  Requests run in a fixed  *)
(* number of concurrent workers (req).                                     *)
(***************************************************************************)
EXTENDS Integers, Sequences, FiniteSets, Bags, TLC

\* ---------------------------------------------------------------- bounds
NumPlayers == 3
NumWorkers == 2
MaxGames == 2
NumQuestions == 2
MaxTimers == 3

Players == 1..NumPlayers
Workers == 1..NumWorkers
GameIds == 1..MaxGames

\* ------------------------------------------------------ program constants
MIN_PLAYERS == 2
TIME_LIMIT_SECONDS == 30
CORRECT_ANSWER_POINTS == 10
CORRECT_ANSWER_WITH_HINT_POINTS == 5
WRONG_ANSWER_POINTS == 0
WRONG_ANSWER_WITH_HINT_POINTS == -5
MinMaxPlayers == 2
MaxMaxPlayers == 10

\* max_players values offered to room creation: one below the validated
\* range, and the smallest valid one (so that a room fills up).
MaxPlayersInputs == {1, 2}

VARIABLES
    room_exists,  \* a Room row exists
    room,         \* the Room row: host, status, max_players, current_game
    players,      \* RoomPlayer rows of the room, in created_at order
    games,        \* Game rows, in creation order (index = game id)
    questions,    \* Question rows: set of <<game, order>>
    answers,      \* Answer rows (a bag: the table may hold equal rows)
    scores,       \* GameScore rows (a bag)
    connections,  \* players with a channel in the room's group
    req,          \* per worker: the request it runs and where it stands
    room_lock,    \* worker holding the Room row lock, 0 = free
    game_lock,    \* per game: worker holding the Game row lock, 0 = free
    conn,         \* per client: where the consumer of its connection stands
    registry,     \* connection_manager.active_connections of the room
    sent,         \* what the last step of a consumer, view or timer sent, and to whom
    tasks,        \* the timer tasks created so far, each by its state
    timers        \* QuestionTimerManager.timers of the room: a task, 0 = no entry

vars == <<room_exists, room, players, games, questions, answers, scores,
          connections, req, room_lock, game_lock, conn, registry, sent,
          tasks, timers>>

db == <<room_exists, room, players, games, questions, answers, scores>>

\* the consumers' side of the connections, and the question timers
net == <<conn, registry, sent>>
clock == <<tasks, timers>>

\* ------------------------------------------------------------ requests
NoRoom == [host |-> 0, status |-> "waiting", max_players |-> 0, current_game |-> 0]

\* A request in a worker: the operation, where it stands (pc), its inputs
\* (player, game, order, sub), what its reads decided (aux, res) and the event
\* it hands to group_send (event).  A worker that finished is Idle again.
NoSub == [answer |-> <<>>, used_hint |-> FALSE, time_taken |-> 0]

Idle == [op |-> "none", pc |-> "done", player |-> 0, game |-> 0, order |-> 0,
         sub |-> NoSub, aux |-> 0, res |-> "none", event |-> "none"]

NewReq(o, p) == [Idle EXCEPT !.op = o, !.player = p]

\* worker w is free to take a new request
Free(w) == req[w].pc = "done"

SetReq(w, r) == req' = [req EXCEPT ![w] = r]

\* ------------------------------------------------------------- rooms
\* Room.player_count
player_count == Len(players)

\* Room.is_full
is_full_off_by_one == player_count > room.max_players
is_full == player_count >= room.max_players

\* Room.can_start
can_start == player_count >= MIN_PLAYERS /\ room.status = "waiting"

\* RoomPlayer.objects.filter(room=room, player=p).exists()
InRoom(p) == \E i \in 1..Len(players) : players[i].player = p

\* room.players.all(): Meta.ordering = ['-score', 'created_at']; first() of it
Before(i, j) == \/ players[i].score > players[j].score
                \/ players[i].score = players[j].score /\ i <= j
FirstPlayer == IF players = <<>> THEN 0
               ELSE players[CHOOSE i \in 1..Len(players) :
                              \A j \in 1..Len(players) : Before(i, j)].player

\* RoomCreateSerializer.validate_max_players
validate_max_players(value) == value >= MinMaxPlayers /\ value <= MaxMaxPlayers

\* RoomCreateView.create: one transaction of inserts only.
RoomCreate(w, host, mp) ==
    /\ Free(w)
    /\ ~room_exists
    /\ IF validate_max_players(mp)
       THEN /\ room_exists' = TRUE
            /\ room' = [host |-> host, status |-> "waiting", max_players |-> mp,
                        current_game |-> 0]
            /\ players' = <<[player |-> host, is_ready |-> FALSE, score |-> 0]>>
       ELSE UNCHANGED <<room_exists, room, players>>
    /\ UNCHANGED req
    /\ UNCHANGED <<games, questions, answers, scores, connections, net, clock, room_lock, game_lock>>

\* RoomJoinView.post, the checks under the Room row lock: the status first,
\* then the capacity; both come before get_or_create looks for a membership.
RoomJoinCheck_full_first(p) ==
    IF is_full THEN "room_full"
    ELSE IF room.status # "waiting" THEN "game_already_started"
    ELSE "ok"
RoomJoinCheck(p) ==
    IF room.status # "waiting" THEN "game_already_started"
    ELSE IF is_full THEN "room_full"
    ELSE "ok"

\* RoomJoinView.post up to get_or_create: lock the Room row, check status
\* and capacity.  A raised exception rolls back and releases the lock.
RoomJoinBegin(w, p) ==
    /\ Free(w)
    /\ room_exists
    /\ room_lock = 0
    /\ IF RoomJoinCheck(p) = "ok"
       THEN /\ SetReq(w, [NewReq("join", p) EXCEPT !.pc = "txn", !.res = "ok"])
            /\ room_lock' = w
       ELSE UNCHANGED <<req, room_lock>>
    /\ UNCHANGED <<db, connections, net, clock, game_lock>>

\* RoomJoinView.post: get_or_create and commit.
RoomJoinCommit(w) ==
    /\ req[w].op = "join" /\ req[w].pc = "txn"
    /\ players' = IF InRoom(req[w].player) THEN players
                  ELSE Append(players, [player |-> req[w].player,
                                        is_ready |-> FALSE, score |-> 0])
    /\ SetReq(w, Idle)
    /\ room_lock' = 0
    /\ UNCHANGED <<room_exists, room, games, questions, answers, scores,
                   connections, net, clock, game_lock>>

\* RoomLeaveView.post up to the delete: lock the Room row (the roster is
\* prefetched with it), look the membership up.  aux keeps the first row of
\* the prefetched roster: room.players.all() is answered from the prefetch
\* cache, which still holds the row deleted afterwards.
RoomLeaveBegin(w, p) ==
    /\ Free(w)
    /\ room_exists
    /\ room_lock = 0
    /\ IF InRoom(p)
       THEN /\ SetReq(w, [NewReq("leave", p) EXCEPT !.pc = "txn", !.aux = FirstPlayer])
            /\ room_lock' = w
       ELSE UNCHANGED <<req, room_lock>>
    /\ UNCHANGED <<db, connections, net, clock, game_lock>>

\* RoomLeaveView.post: delete the membership, reassign the host or delete
\* the room, commit.
RoomLeaveCommit(w) ==
    /\ req[w].op = "leave" /\ req[w].pc = "txn"
    /\ players' = SelectSeq(players, LAMBDA rp : rp.player # req[w].player)
    /\ IF room.host = req[w].player
       THEN IF req[w].aux # 0
            THEN /\ room' = [room EXCEPT !.host = req[w].aux]
                 /\ UNCHANGED <<room_exists, games, questions, answers, scores>>
            ELSE \* _cleanup_room_games and room.delete()
                 /\ room_exists' = FALSE
                 /\ room' = NoRoom
                 /\ games' = <<>> /\ questions' = {}
                 /\ answers' = EmptyBag /\ scores' = EmptyBag
       ELSE UNCHANGED <<room_exists, room, games, questions, answers, scores>>
    /\ SetReq(w, Idle)
    /\ room_lock' = 0
    /\ UNCHANGED <<connections, net, clock, game_lock>>

\* ------------------------------------------------------------- games
\* Game.objects.filter(room=room, status='active')
ActiveGames_any_status == 1..Len(games)
ActiveGames == {g \in 1..Len(games) : games[g].status = "active"}

\* Game.total_questions
total_questions(g) == Cardinality({q \in questions : q[1] = g})

\* Game.current_question (0 stands for None), as the order of the question
HasCurrentQuestion(g, idx) == idx < total_questions(g)

NewGame == [status |-> "active", current_question_index |-> 0]

NewScore(g, p) == [game |-> g, player |-> p, total_score |-> 0,
                   correct_answers |-> 0, wrong_answers |-> 0, rank |-> 0]

\* rows of the roster, as a set of players
Roster == {players[i].player : i \in 1..Len(players)}

\* RoomStartGameView.post: the number of questions it asks the source for
\* (settings.QUESTIONS_PER_GAME, scaled to the bound of the model).
num_questions == NumQuestions

\* What happens in RoomStartGameView.post between the creation of the
\* GameScores and the return, where the view calls the question source and
\* the channel layer:
\*  - "created": the source creates count >= 1 questions, group_send succeeds
\*    (_validate_questions_data only logs a warning when the source returned
\*    fewer questions than it was asked for);
\*  - "qge": QuestionGenerationException (the Gemini call or its validation
\*    failed, or no question came back);
\*  - "error": another exception escapes GameService.start_game (the fallback
\*    to the sample questions raised as well, as Question.objects.create does
\*    when it is given a keyword the Question model has no field for);
\*  - "send_error": the questions were created and the room was saved, then
\*    building the game_started message or group_send raised.
QuestionSourceOutcomes ==
    {[kind |-> k, count |-> n] : k \in {"created", "send_error"}, n \in 1..NumQuestions}
        \cup {[kind |-> "qge", count |-> 0], [kind |-> "error", count |-> 0]}

\* RoomStartGameView.post up to the return: lock the Room row, check host
\* and can_start, create Game, GameScores and questions, set the room
\* in_progress and hand game_started to group_send.  All of it is inside the
\* transaction of the view and is not yet committed.
\*  - NotHost, InsufficientPlayers, GameAlreadyStarted and
\*    QuestionGenerationException leave the view as exceptions: rollback.
\*  - any other exception is caught by the view, which returns a 500
\*    response: the transaction commits what was written until then, the
\*    Game and its GameScores (aux = 0: no question, room untouched), with
\*    "send_error" the questions and the room as well.
RoomStartGameCheck(p) ==
    IF room.host # p THEN "not_host"
    ELSE IF ~can_start THEN "insufficient_players"
    ELSE IF room.status = "in_progress" THEN "game_already_started"
    ELSE "ok"

RoomStartGameBegin(w, p, out) ==
    /\ Free(w)
    /\ room_exists
    /\ room_lock = 0
    /\ Len(games) < MaxGames
    /\ IF RoomStartGameCheck(p) = "ok" /\ out.kind # "qge"
       THEN /\ room_lock' = w
            /\ SetReq(w, [NewReq("start_http", p) EXCEPT
                            !.pc = "txn",
                            !.aux = out.count,
                            !.res = IF out.kind = "created" THEN "ok"
                                    ELSE "game_start_failed",
                            !.event = IF out.kind = "created" THEN "game_started"
                                      ELSE "none"])
       ELSE UNCHANGED <<req, room_lock>>
    /\ UNCHANGED <<db, connections, net, clock, game_lock>>

\* RoomStartGameView.post: the commit.
RoomStartGameCommit(w) ==
    /\ req[w].op = "start_http" /\ req[w].pc = "txn"
    /\ LET g == Len(games) + 1
           k == req[w].aux
       IN IF k > 0
          THEN /\ games' = Append(games, NewGame)
               /\ scores' = scores (+) SetToBag({NewScore(g, q) : q \in Roster})
               /\ questions' = questions \cup {<<g, i>> : i \in 0..(k - 1)}
               /\ room' = [room EXCEPT !.status = "in_progress", !.current_game = g]
          ELSE /\ games' = Append(games, NewGame)
               /\ scores' = scores (+) SetToBag({NewScore(g, q) : q \in Roster})
               /\ UNCHANGED <<questions, room>>
    /\ SetReq(w, Idle)
    /\ room_lock' = 0
    /\ UNCHANGED <<room_exists, players, answers, connections, net, clock, game_lock>>

\* GameRoomConsumer.verify_host, called by handle_start_game and
\* handle_next_question before their transaction: a read of its own.
VerifyHost(w, p, o) ==
    /\ Free(w)
    /\ p \in connections
    /\ IF room_exists /\ room.host = p
       THEN SetReq(w, [NewReq(o, p) EXCEPT !.pc = "verified"])
       ELSE UNCHANGED req
    /\ UNCHANGED <<db, connections, net, clock, room_lock, game_lock>>

\* GameRoomConsumer.start_game up to the return: lock the Room row, refuse
\* when the room has an active game.
StartGameBegin(w) ==
    /\ req[w].op = "start_ws" /\ req[w].pc = "verified"
    /\ room_exists
    /\ room_lock = 0
    /\ Len(games) < MaxGames
    /\ IF ActiveGames # {}
       THEN SetReq(w, Idle) /\ UNCHANGED room_lock
       ELSE SetReq(w, [req[w] EXCEPT !.pc = "txn"]) /\ room_lock' = w
    /\ UNCHANGED <<db, connections, net, clock, game_lock>>

\* GameRoomConsumer.start_game: create the Game, look for its first question,
\* commit.  The new Game has no question, the method returns the error from
\* inside its atomic block.
StartGameCommit(w) ==
    /\ req[w].op = "start_ws" /\ req[w].pc = "txn"
    /\ LET g == Len(games) + 1
       IN IF HasCurrentQuestion(g, 0)
          THEN /\ games' = Append(games, NewGame)
               /\ SetReq(w, [req[w] EXCEPT !.pc = "publish", !.game = g,
                                           !.event = "game_started"])
          ELSE /\ games' = Append(games, NewGame)
               /\ SetReq(w, Idle)
    /\ room_lock' = 0
    /\ UNCHANGED <<room_exists, room, players, questions, answers, scores,
                   connections, net, clock, game_lock>>

\* ----------------------------------------------------------- answers
\* str.strip() and str.lower() on the characters the submissions use
IsSpace(c) == c = " "
RECURSIVE LStrip(_)
LStrip(t) == IF t # <<>> /\ IsSpace(Head(t)) THEN LStrip(Tail(t)) ELSE t
RECURSIVE RStrip(_)
RStrip(t) == IF t # <<>> /\ IsSpace(t[Len(t)]) THEN RStrip(SubSeq(t, 1, Len(t) - 1)) ELSE t
Strip(t) == RStrip(LStrip(t))
LowerChar(c) == IF c = "P" THEN "p" ELSE IF c = "A" THEN "a" ELSE c
Lower(t) == [i \in 1..Len(t) |-> LowerChar(t[i])]

\* Question.correct_answer (the same text stands for every question)
correct_answer == <<"P", "a">>

\* Question.check_answer
check_answer(answer_text) == Lower(Strip(answer_text)) = Lower(Strip(correct_answer))

\* The submissions offered: a correct one in time that needs trimming and
\* case folding, a wrong one with the hint, a correct one with the hint that
\* took longer than the time limit.
Submissions ==
    { [answer |-> <<" ", "p", "A", " ">>, used_hint |-> FALSE, time_taken |-> TIME_LIMIT_SECONDS],
      [answer |-> <<"R">>, used_hint |-> TRUE, time_taken |-> 0],
      [answer |-> <<"P", "a">>, used_hint |-> TRUE, time_taken |-> TIME_LIMIT_SECONDS + 1] }

\* Answer.calculate_points
calculate_points(is_correct, used_hint) ==
    IF is_correct
    THEN IF used_hint THEN CORRECT_ANSWER_WITH_HINT_POINTS ELSE CORRECT_ANSWER_POINTS
    ELSE IF used_hint THEN WRONG_ANSWER_WITH_HINT_POINTS ELSE WRONG_ANSWER_POINTS

NewAnswer(g, o, p, sub) ==
    LET ok == check_answer(sub.answer)
    IN [question |-> <<g, o>>, player |-> p, is_correct |-> ok,
        used_hint |-> sub.used_hint, time_taken |-> sub.time_taken,
        points_earned |-> calculate_points(ok, sub.used_hint)]

\* Answer.objects.filter(question=question, player=player)
ExistingAnswers_correct_only(g, o, p) ==
    {a \in BagToSet(answers) : a.question = <<g, o>> /\ a.player = p /\ a.is_correct}
ExistingAnswers(g, o, p) ==
    {a \in BagToSet(answers) : a.question = <<g, o>> /\ a.player = p}

\* GameScore.objects.get_or_create(game=game, player=player, defaults=zeros)
ScoreRows(g, p) == {s \in BagToSet(scores) : s.game = g /\ s.player = p}
GetOrCreateScore(g, p) ==
    IF ScoreRows(g, p) # {} THEN CHOOSE s \in ScoreRows(g, p) : TRUE ELSE NewScore(g, p)

\* GameScore.update_score
update_score_correct_only(s, a) ==
    [s EXCEPT !.total_score = @ + a.points_earned,
              !.correct_answers = IF a.is_correct THEN @ + 1 ELSE @]
update_score(s, a) ==
    [s EXCEPT !.total_score = @ + a.points_earned,
              !.correct_answers = IF a.is_correct THEN @ + 1 ELSE @,
              !.wrong_answers = IF a.is_correct THEN @ ELSE @ + 1]

\* the scores table after get_or_create and update_score for answer a
ScoresAfter(g, p, a) ==
    LET old == ScoreRows(g, p)
        base == IF old # {} THEN scores (-) SetToBag({GetOrCreateScore(g, p)}) ELSE scores
    IN base (+) SetToBag({update_score(GetOrCreateScore(g, p), a)})

\* RoomPlayer pk values are auto-incremented integers; the pk of a row
\* is taken to be its position, and any pk lies below PkRange (the bigint
\* range).  The id of a Player is a UUID, and a UUID used as the value of an
\* integer lookup is converted by int(): a 128 bit number past that range.
PkRange == 1000
IntOfUUID(p) == PkRange + p

\* game.room.players.filter(id=player.id).exists(): a lookup of RoomPlayer
\* rows by their own pk, given the player's id.
PlayersFilterById(v) == {i \in 1..Len(players) : i = v}

\* SubmitAnswerView.post: lock the Game row, validate, create the Answer and
\* update the GameScore.  Every failure is an exception or an error response
\* before the first write.
SubmitAnswerCheck(g, o, p, sub) ==
    IF games[g].status # "active" THEN "game_completed"
    ELSE IF PlayersFilterById(IntOfUUID(p)) = {} THEN "player_not_in_game"
    ELSE IF o # games[g].current_question_index THEN "invalid_question"
    ELSE IF ExistingAnswers(g, o, p) # {} THEN "answer_already_submitted"
    ELSE IF sub.time_taken > TIME_LIMIT_SECONDS THEN "time_limit_exceeded"
    ELSE IF sub.time_taken < 0 THEN "invalid_time_taken"
    ELSE "ok"

SubmitAnswerView(w, g, o, p, sub) ==
    /\ Free(w)
    /\ g \in 1..Len(games)
    /\ <<g, o>> \in questions
    /\ game_lock[g] = 0
    /\ IF SubmitAnswerCheck(g, o, p, sub) = "ok"
       THEN /\ answers' = answers (+) SetToBag({NewAnswer(g, o, p, sub)})
            /\ scores' = ScoresAfter(g, p, NewAnswer(g, o, p, sub))
       ELSE UNCHANGED <<answers, scores>>
    /\ UNCHANGED <<room_exists, room, players, games, questions, connections, net, clock,
                   req, room_lock, game_lock>>

\* select_for_update on the active Game rows of the room waits while
\* another transaction holds one of them.
GameLocksFree == \A g \in ActiveGames : game_lock[g] = 0

ReleaseGameLocks(w) == [g \in GameIds |-> IF game_lock[g] = w THEN 0 ELSE game_lock[g]]

\* GameRoomConsumer.check_answer from the Game lookup to the existing-answer
\* check, for a submission of player p naming question o of game g:
\* Game.objects.get(room=room, status='active') raises unless exactly one
\* Game is active, Question.objects.get(id=question_id, game=game) raises
\* unless the question belongs to that game ("error": the handler sends an
\* error to the sender); an existing Answer returns its result
\* ("already_answered": the handler sends answer_result to the sender).
CheckAnswerResult(g, o, p) ==
    IF Cardinality(ActiveGames) # 1 THEN "error"
    ELSE IF g \notin ActiveGames THEN "error"
    ELSE IF <<g, o>> \notin questions THEN "error"
    ELSE IF ExistingAnswers(g, o, p) # {} THEN "already_answered"
    ELSE "ok"

\* The same for the request r of worker w that holds the Room row lock.  The
\* outcomes other than "ok" end the transaction without a write.
CheckAnswerRead(w, r) ==
    IF CheckAnswerResult(r.game, r.order, r.player) # "ok"
    THEN /\ SetReq(w, Idle)
         /\ room_lock' = 0
         /\ UNCHANGED game_lock
    ELSE /\ SetReq(w, [r EXCEPT !.pc = "txn"])
         /\ room_lock' = w
         /\ game_lock' = [game_lock EXCEPT ![r.game] = w]

\* handle_submit_answer and the start of check_answer: lock the Room row,
\* then the Game row.
CheckAnswerBegin(w, p, g, o, sub) ==
    /\ Free(w)
    /\ p \in connections
    /\ Strip(sub.answer) # <<>>
    /\ room_exists
    /\ room_lock = 0
    /\ LET r == [NewReq("submit_ws", p) EXCEPT !.game = g, !.order = o,
                    !.sub = [sub EXCEPT !.answer = Strip(sub.answer)]]
       IN IF GameLocksFree
          THEN CheckAnswerRead(w, r)
          ELSE /\ SetReq(w, [r EXCEPT !.pc = "wait_game"])
               /\ room_lock' = w
               /\ UNCHANGED game_lock
    /\ UNCHANGED <<db, connections, net, clock>>

CheckAnswerResume(w) ==
    /\ req[w].op = "submit_ws" /\ req[w].pc = "wait_game"
    /\ GameLocksFree
    /\ CheckAnswerRead(w, req[w])
    /\ UNCHANGED <<db, connections, net, clock>>

\* check_answer from Answer.objects.create to the commit: create the
\* Answer, update the GameScore, mirror the total into the RoomPlayer row.
\* RoomPlayer.objects.get raises for a player without a membership, which
\* rolls the transaction back.
CheckAnswerCommit(w) ==
    /\ req[w].op = "submit_ws" /\ req[w].pc = "txn"
    /\ LET r == req[w]
           a == NewAnswer(r.game, r.order, r.player, r.sub)
           total == update_score(GetOrCreateScore(r.game, r.player), a).total_score
       IN IF InRoom(r.player)
          THEN /\ answers' = answers (+) SetToBag({a})
               /\ scores' = ScoresAfter(r.game, r.player, a)
               /\ players' = [i \in 1..Len(players) |->
                                IF players[i].player = r.player
                                THEN [players[i] EXCEPT !.score = total]
                                ELSE players[i]]
               /\ SetReq(w, [NewReq("submit_ws", r.player) EXCEPT
                               !.pc = "publish", !.event = "answer_submitted"])
          ELSE /\ UNCHANGED <<answers, scores, players>>
               /\ SetReq(w, Idle)
    /\ room_lock' = 0
    /\ game_lock' = ReleaseGameLocks(w)
    /\ UNCHANGED <<room_exists, room, games, questions, connections, net, clock>>

\* ------------------------------------------------------------- advance
\* Game.complete_game: the room row after it
RoomAfterCompleteGame_untouched(r) == r
RoomAfterCompleteGame(r) == [r EXCEPT !.status = "completed"]

\* NextQuestionView.post, the checks before next_question: the status of the
\* Game, the host of its room; then what Game.next_question will do.
NextQuestionCheck_past_end(g, p) ==
    IF games[g].status # "active" THEN "game_not_active"
    ELSE IF room.host # p THEN "not_host"
    ELSE IF games[g].current_question_index + 1 > total_questions(g) THEN "completed"
    ELSE "success"
NextQuestionCheck(g, p) ==
    IF games[g].status # "active" THEN "game_not_active"
    ELSE IF room.host # p THEN "not_host"
    ELSE IF games[g].current_question_index + 1 >= total_questions(g) THEN "completed"
    ELSE "success"

\* NextQuestionView.post once its select_for_update holds both rows: the
\* checks.  A failed check is an exception: rollback, locks released.
NextQuestionRead(w, r) ==
    IF NextQuestionCheck(r.game, r.player) \in {"completed", "success"}
    THEN /\ SetReq(w, [r EXCEPT !.pc = "txn", !.res = NextQuestionCheck(r.game, r.player)])
         /\ room_lock' = w
         /\ game_lock' = [game_lock EXCEPT ![r.game] = w]
    ELSE /\ SetReq(w, Idle)
         /\ room_lock' = IF room_lock = w THEN 0 ELSE room_lock
         /\ game_lock' = [game_lock EXCEPT ![r.game] = 0]

\* NextQuestionView.post, its select_for_update().select_related('room'):
\* one SELECT ... FOR UPDATE over the join of the Game row with its Room row,
\* which locks the Game row and then the Room row, and waits for the second
\* with the first one held.
NextQuestionBegin(w, g, p) ==
    /\ Free(w)
    /\ g \in 1..Len(games)
    /\ game_lock[g] = 0
    /\ LET r == [NewReq("next_http", p) EXCEPT !.game = g]
       IN IF room_lock = 0
          THEN NextQuestionRead(w, r)
          ELSE /\ SetReq(w, [r EXCEPT !.pc = "wait_room"])
               /\ game_lock' = [game_lock EXCEPT ![g] = w]
               /\ UNCHANGED room_lock
    /\ UNCHANGED <<db, connections, net, clock>>

NextQuestionResume(w) ==
    /\ req[w].op = "next_http" /\ req[w].pc = "wait_room"
    /\ room_lock = 0
    /\ NextQuestionRead(w, req[w])
    /\ UNCHANGED <<db, connections, net, clock>>

\* NextQuestionView.post: Game.next_question and the commit.  When the game
\* completes, complete_game saves status and completed_at only (the
\* incremented index is not among its update_fields) and the Room row.
NextQuestionCommit(w) ==
    /\ req[w].op = "next_http" /\ req[w].pc = "txn"
    /\ LET g == req[w].game
       IN IF req[w].res = "completed"
          THEN /\ games' = [games EXCEPT ![g].status = "completed"]
               /\ room' = RoomAfterCompleteGame(room)
          ELSE /\ games' = [games EXCEPT ![g].current_question_index = @ + 1]
               /\ UNCHANGED room
    /\ SetReq(w, Idle)
    /\ room_lock' = 0
    /\ game_lock' = ReleaseGameLocks(w)
    /\ UNCHANGED <<room_exists, players, questions, answers, scores, connections, net, clock>>

\* GameRoomConsumer.get_next_question after the Room row lock:
\* Game.objects.select_for_update().get(room=room, status='active').
GetNextQuestionRead(w, r) ==
    LET g == CHOOSE x \in ActiveGames : TRUE
    IN IF Cardinality(ActiveGames) # 1
       THEN /\ SetReq(w, Idle)
            /\ room_lock' = 0
            /\ UNCHANGED game_lock
       ELSE /\ SetReq(w, [r EXCEPT !.pc = "txn", !.game = g])
            /\ room_lock' = w
            /\ game_lock' = [game_lock EXCEPT ![g] = w]

GetNextQuestionBegin(w) ==
    /\ req[w].op = "next_ws" /\ req[w].pc = "verified"
    /\ room_exists
    /\ room_lock = 0
    /\ IF GameLocksFree
       THEN GetNextQuestionRead(w, req[w])
       ELSE /\ SetReq(w, [req[w] EXCEPT !.pc = "wait_game"])
            /\ room_lock' = w
            /\ UNCHANGED game_lock
    /\ UNCHANGED <<db, connections, net, clock>>

GetNextQuestionResume(w) ==
    /\ req[w].op = "next_ws" /\ req[w].pc = "wait_game"
    /\ GameLocksFree
    /\ GetNextQuestionRead(w, req[w])
    /\ UNCHANGED <<db, connections, net, clock>>

\* get_next_question: Game.next_question and the commit.  When the game
\* completes, the method saves the whole Game row after complete_game, the
\* incremented index with it.
GetNextQuestionCommit(w) ==
    /\ req[w].op = "next_ws" /\ req[w].pc = "txn"
    /\ LET g == req[w].game
           idx == games[g].current_question_index + 1
       IN IF idx >= total_questions(g)
          THEN /\ games' = [games EXCEPT ![g] = [status |-> "completed",
                                                 current_question_index |-> idx]]
               /\ room' = RoomAfterCompleteGame(room)
               /\ SetReq(w, [req[w] EXCEPT !.pc = "publish", !.event = "game_complete"])
          ELSE /\ games' = [games EXCEPT ![g].current_question_index = idx]
               /\ UNCHANGED room
               /\ SetReq(w, [req[w] EXCEPT !.pc = "publish", !.event = "next_question"])
    /\ room_lock' = 0
    /\ game_lock' = ReleaseGameLocks(w)
    /\ UNCHANGED <<room_exists, players, questions, answers, scores, connections, net, clock>>

\* The group_send that ends a consumer handler.  handle_next_question calls
\* get_final_results before it sends game_complete: Game.objects.get(room=room)
\* raises when the room has more than one Game, and the handler then sends
\* an error to its own client instead.
Publish(w) ==
    /\ req[w].pc = "publish"
    /\ SetReq(w, Idle)
    /\ UNCHANGED <<db, connections, net, clock, room_lock, game_lock>>

\* Two transactions that wait for each other: NextQuestionView.post holds a
\* Game row and waits for the Room row, a consumer transaction holds the Room
\* row and waits for that Game row.  PostgreSQL detects the cycle and aborts
\* one of the two (either may be the one): it is rolled back and its locks
\* are released.
Deadlocked(w, v) ==
    /\ req[w].op = "next_http" /\ req[w].pc = "wait_room"
    /\ req[v].pc = "wait_game" /\ room_lock = v
    /\ req[w].game \in ActiveGames

DeadlockAbort(w) ==
    /\ \E v \in Workers : Deadlocked(w, v) \/ Deadlocked(v, w)
    /\ SetReq(w, Idle)
    /\ room_lock' = IF room_lock = w THEN 0 ELSE room_lock
    /\ game_lock' = ReleaseGameLocks(w)
    /\ UNCHANGED <<db, connections, net, clock>>

\* ---------------------------------------------------------- connections
\* A client is known by the player_id of its query string: NoPlayerId is a
\* connection without one, UnknownPlayer an id that no Player row has.  One
\* connection for each client is modelled.
NoPlayerId == 0
UnknownPlayer == NumPlayers + 1
Clients == {NoPlayerId} \cup Players \cup {UnknownPlayer}

\* the room code of the URL: the code of the room, or a code no room has
RoomCodes == {"room", "other"}

\* the states of a room and of a game as the consumer reports them
NoRoomState == [found |-> FALSE, status |-> "none", host |-> 0, roster |-> {}]
NoGameState == [game_status |-> "none", current_question_index |-> 0,
                total_questions |-> 0, current_question |-> -1, keys |-> {}]

\* a message sent to one client
Msg(t) == [type |-> t, message |-> "", room_state |-> NoRoomState,
          game_state |-> NoGameState]

\* What a step of a consumer sent: msgs over its own connection (to, which
\* names the room by room_code), publish to the group of the room, and
\* close, the code it closed its connection with (0: it did not).
NoOut == [to |-> 0, room_code |-> "room", msgs |-> <<>>, publish |-> <<>>, close |-> 0]
Sends(c, m, pub) == [NoOut EXCEPT !.to = c, !.msgs = m, !.publish = pub]
Closed(c, code, n) == [NoOut EXCEPT !.to = c, !.room_code = code, !.close = n]

\* WebSocketConnectionManager.connect and disconnect, on the entry of the
\* room in active_connections (an entry that became empty is deleted)
connection_manager_connect(reg, c) == reg \cup {c}
connection_manager_disconnect_keeps(reg, c) == reg
connection_manager_disconnect(reg, c) == reg \ {c}

\* GameRoomConsumer.verify_room_and_player: Room.objects.get(code=...),
\* Player.objects.get(id=...), then the membership.
verify_room_and_player_any_player(code, c) ==
    room_exists /\ code = "room" /\ (c # NoPlayerId => c \in Players)
verify_room_and_player(code, c) ==
    /\ room_exists /\ code = "room"
    /\ c # NoPlayerId => (c \in Players /\ InRoom(c))

\* GameRoomConsumer.get_room_state
get_room_state ==
    IF room_exists
    THEN [found |-> TRUE, status |-> room.status, host |-> room.host,
          roster |-> {players[i] : i \in 1..Len(players)}]
    ELSE NoRoomState

\* Game.objects.filter(room=room, status='active').latest('created_at'),
\* 0 when there is none
LatestActiveGame_any_status == Len(games)
LatestActiveGame ==
    IF ActiveGames = {} THEN 0
    ELSE CHOOSE g \in ActiveGames : \A h \in ActiveGames : h <= g

\* the keys of the question dictionary in get_game_state
GameStateQuestionKeys == {"id", "order", "text", "items", "hint", "time_limit"}

\* GameRoomConsumer.get_game_state
get_game_state ==
    LET g == LatestActiveGame
    IN IF ~room_exists \/ g = 0 THEN NoGameState
       ELSE LET idx == games[g].current_question_index
                has == HasCurrentQuestion(g, idx)
            IN [game_status |-> games[g].status,
                current_question_index |-> idx,
                total_questions |-> total_questions(g),
                current_question |-> IF has THEN idx ELSE -1,
                keys |-> IF has THEN GameStateQuestionKeys ELSE {}]

\* GameRoomConsumer.connect up to the player_joined broadcast: without a
\* player_id the connection is closed with 4001, with a room or a player
\* that does not verify with 4004; otherwise the channel joins the group,
\* the connection is accepted and registered, player_joined is published.
Connect(c, code) ==
    /\ conn[c] = "closed"
    /\ IF c = NoPlayerId
       THEN /\ sent' = Closed(c, code, 4001)
            /\ UNCHANGED <<connections, conn, registry>>
       ELSE IF ~verify_room_and_player(code, c)
       THEN /\ sent' = Closed(c, code, 4004)
            /\ UNCHANGED <<connections, conn, registry>>
       ELSE /\ connections' = connections \cup {c}
            /\ conn' = [conn EXCEPT ![c] = "accepted"]
            /\ registry' = connection_manager_connect(registry, c)
            /\ sent' = Sends(c, <<>>, <<"player_joined">>)
    /\ UNCHANGED <<db, req, room_lock, game_lock, clock>>

\* connect, after the broadcast: get_room_state and room_state_update
SendRoomState(c) ==
    /\ conn[c] = "accepted"
    /\ conn' = [conn EXCEPT ![c] = "room_sent"]
    /\ sent' = Sends(c, <<[Msg("room_state_update") EXCEPT !.room_state = get_room_state]>>, <<>>)
    /\ UNCHANGED <<db, connections, req, room_lock, game_lock, registry, clock>>

\* connect, its end: get_game_state, and initial_state if game_status is set
SendGameState(c) ==
    /\ conn[c] = "room_sent"
    /\ conn' = [conn EXCEPT ![c] = "open"]
    /\ sent' = IF get_game_state.game_status # "none"
              THEN Sends(c, <<[Msg("initial_state") EXCEPT !.game_state = get_game_state]>>, <<>>)
              ELSE Sends(c, <<>>, <<>>)
    /\ UNCHANGED <<db, connections, req, room_lock, game_lock, registry, clock>>

\* GameRoomConsumer.disconnect of a connection that was accepted (the
\* consumer handles it when connect has returned): the registry forgets the
\* channel, player_left is published, the channel leaves the group.
Disconnect(c) ==
    /\ conn[c] = "open"
    /\ registry' = connection_manager_disconnect(registry, c)
    /\ sent' = Sends(c, <<>>, <<"player_left">>)
    /\ connections' = connections \ {c}
    /\ conn' = [conn EXCEPT ![c] = "closed"]
    /\ UNCHANGED <<db, req, room_lock, game_lock, clock>>

\* ------------------------------------------------------ inbound frames
\* GameRoomConsumer.send_error
send_error_to_group(c, text) ==
    Sends(c, <<[Msg("error") EXCEPT !.message = text]>>, <<"error">>)
send_error(c, text) == Sends(c, <<[Msg("error") EXCEPT !.message = text]>>, <<>>)

\* The text frames a client sends.  json: the text parses as a JSON object;
\* question: the question_id, as the <<game, order>> of a question, NoQuestion
\* when the frame has none; sub: answer, used_hint and time_taken of a
\* submit_answer; message: the text of a chat_message.
NoQuestion == <<0, 0>>
QuestionIds == GameIds \X (0..(NumQuestions - 1))
EmptySubmission == [answer |-> <<" ">>, used_hint |-> FALSE, time_taken |-> 0]
Frame(t) == [json |-> TRUE, type |-> t, question |-> NoQuestion, sub |-> NoSub,
             message |-> <<>>]
TextFrames ==
    {[Frame("none") EXCEPT !.json = FALSE], Frame("unknown"), Frame("ping"),
     Frame("start_game"), Frame("next_question")}
    \cup {[Frame("chat_message") EXCEPT !.message = m] : m \in {<<" ">>, <<"h", "i">>}}
    \cup {[Frame("request_hint") EXCEPT !.question = q] : q \in {NoQuestion, <<1, 0>>}}
    \cup {[Frame("submit_answer") EXCEPT !.sub = s] : s \in {EmptySubmission, NoSub}}
    \cup {[Frame("submit_answer") EXCEPT !.question = q, !.sub = s] :
             q \in QuestionIds, s \in Submissions}

\* GameRoomConsumer.receive for a frame that no handler takes: text that is
\* not JSON, a type that is not in handlers.
receive_unrouted(c, f) ==
    IF ~f.json THEN send_error(c, "Invalid message format")
    ELSE send_error(c, "Unknown message type")

\* GameRoomConsumer.handle_ping
handle_ping(c) == Sends(c, <<Msg("pong")>>, <<>>)

\* GameRoomConsumer.handle_chat_message
handle_chat_message(c, f) ==
    IF Strip(f.message) = <<>> \/ Len(Strip(f.message)) > 500
    THEN Sends(c, <<>>, <<>>)
    ELSE Sends(c, <<>>, <<"chat_message">>)

\* GameRoomConsumer.handle_request_hint; hint: the question has a hint text
handle_request_hint(c, f, hint) ==
    IF f.question = NoQuestion THEN send_error(c, "Question ID is required")
    ELSE IF f.question \in questions /\ hint THEN Sends(c, <<Msg("hint")>>, <<>>)
    ELSE send_error(c, "No hint available")

\* GameRoomConsumer.handle_submit_answer: what it sends.  check_answer
\* raises in RoomPlayer.objects.get for a player without a membership.
handle_submit_answer(c, f) ==
    IF Strip(f.sub.answer) = <<>> THEN send_error(c, "Answer cannot be empty")
    ELSE IF f.question = NoQuestion THEN send_error(c, "Question ID is required")
    ELSE LET res == CheckAnswerResult(f.question[1], f.question[2], c)
         IN IF res = "already_answered" THEN Sends(c, <<Msg("answer_result")>>, <<>>)
            ELSE IF res = "error" \/ ~InRoom(c)
            THEN send_error(c, "Game, player, or question not found")
            ELSE Sends(c, <<>>, <<"answer_submitted">>)

\* GameRoomConsumer.handle_start_game: what it sends.  start_game returns
\* its errors from inside the atomic block.
handle_start_game(c) ==
    IF ~(room_exists /\ room.host = c) THEN send_error(c, "Only the host can start the game")
    ELSE IF ActiveGames # {} THEN send_error(c, "Game already in progress")
    ELSE IF ~HasCurrentQuestion(Len(games) + 1, 0) THEN send_error(c, "No questions available")
    ELSE Sends(c, <<>>, <<"game_started">>)

\* GameRoomConsumer.handle_next_question: what it sends.  get_next_question
\* fails unless one Game of the room is active; after the last question
\* get_final_results runs Game.objects.get(room=room), which raises when the
\* room has more than one Game, and receive reports that to the sender.
handle_next_question(c) ==
    IF ~(room_exists /\ room.host = c) THEN send_error(c, "Only the host can advance questions")
    ELSE IF ActiveGames = {} THEN send_error(c, "Game not found")
    ELSE IF Cardinality(ActiveGames) > 1 THEN send_error(c, "Failed to get next question")
    ELSE LET g == CHOOSE x \in ActiveGames : TRUE
         IN IF games[g].current_question_index + 1 < total_questions(g)
            THEN Sends(c, <<>>, <<"next_question">>)
            ELSE IF Len(games) > 1 THEN send_error(c, "Error processing message")
            ELSE Sends(c, <<>>, <<"game_complete">>)

\* GameRoomConsumer.receive for a text frame: what it sends
receive(c, f, hint) ==
    IF ~f.json THEN receive_unrouted(c, f)
    ELSE IF f.type = "submit_answer" THEN handle_submit_answer(c, f)
    ELSE IF f.type = "next_question" THEN handle_next_question(c)
    ELSE IF f.type = "start_game" THEN handle_start_game(c)
    ELSE IF f.type = "chat_message" THEN handle_chat_message(c, f)
    ELSE IF f.type = "request_hint" THEN handle_request_hint(c, f, hint)
    ELSE IF f.type = "ping" THEN handle_ping(c)
    ELSE receive_unrouted(c, f)

\* A binary frame: AsyncWebsocketConsumer.websocket_receive calls
\* receive(bytes_data=...), which GameRoomConsumer.receive(self, text_data)
\* does not take.  The TypeError is raised outside the try of receive and
\* ends the consumer: the server closes the connection (1011), disconnect
\* is not run, the channel stays in the group and in the registry.
ReceiveBinary(c) ==
    /\ conn[c] = "open"
    /\ conn' = [conn EXCEPT ![c] = "closed"]
    /\ sent' = Closed(c, "room", 1011)
    /\ UNCHANGED <<db, connections, req, room_lock, game_lock, registry, clock>>

\* receive for the frames that change no row: unrouted frames, ping,
\* chat_message and request_hint.
ReceiveText(c, f, hint) ==
    /\ conn[c] = "open"
    /\ f.type \notin {"submit_answer", "start_game", "next_question"}
    /\ f.type # "request_hint" => hint
    /\ sent' = receive(c, f, hint)
    /\ UNCHANGED <<db, connections, req, room_lock, game_lock, conn, registry, clock>>

\* receive for submit_answer: handle_submit_answer with check_answer, run as
\* a whole once the row locks it takes are free.
HandleSubmitAnswer(c, f) ==
    /\ conn[c] = "open"
    /\ f.type = "submit_answer"
    /\ room_lock = 0 /\ GameLocksFree
    /\ sent' = receive(c, f, TRUE)
    /\ IF handle_submit_answer(c, f).publish # <<>>
       THEN LET g == f.question[1]
                a == NewAnswer(g, f.question[2], c, [f.sub EXCEPT !.answer = Strip(f.sub.answer)])
                total == update_score(GetOrCreateScore(g, c), a).total_score
            IN /\ answers' = answers (+) SetToBag({a})
               /\ scores' = ScoresAfter(g, c, a)
               /\ players' = [i \in 1..Len(players) |->
                                IF players[i].player = c
                                THEN [players[i] EXCEPT !.score = total]
                                ELSE players[i]]
       ELSE UNCHANGED <<answers, scores, players>>
    /\ UNCHANGED <<room_exists, room, games, questions, connections, req, room_lock,
                   game_lock, conn, registry, clock>>

\* receive for start_game: handle_start_game with verify_host and
\* start_game, run as a whole.  The Game that start_game creates is committed
\* also when the method returns 'No questions available'.
HandleStartGame(c) ==
    /\ conn[c] = "open"
    /\ room_lock = 0
    /\ Len(games) < MaxGames
    /\ sent' = receive(c, Frame("start_game"), TRUE)
    /\ IF room_exists /\ room.host = c /\ ActiveGames = {}
       THEN games' = Append(games, NewGame)
       ELSE UNCHANGED games
    /\ UNCHANGED <<room_exists, room, players, questions, answers, scores, connections,
                   req, room_lock, game_lock, conn, registry, clock>>

\* receive for next_question: handle_next_question with verify_host,
\* get_next_question and get_final_results, run as a whole.
HandleNextQuestion(c) ==
    /\ conn[c] = "open"
    /\ room_lock = 0 /\ GameLocksFree
    /\ sent' = receive(c, Frame("next_question"), TRUE)
    /\ IF room_exists /\ room.host = c /\ Cardinality(ActiveGames) = 1
       THEN LET g == CHOOSE x \in ActiveGames : TRUE
                idx == games[g].current_question_index + 1
            IN IF idx >= total_questions(g)
               THEN /\ games' = [games EXCEPT ![g] = [status |-> "completed",
                                                      current_question_index |-> idx]]
                    /\ room' = RoomAfterCompleteGame(room)
               ELSE /\ games' = [games EXCEPT ![g].current_question_index = idx]
                    /\ UNCHANGED room
       ELSE UNCHANGED <<games, room>>
    /\ UNCHANGED <<room_exists, players, questions, answers, scores, connections,
                   req, room_lock, game_lock, conn, registry, clock>>

\* ------------------------------------------------------ question timers
\* QuestionTimerManager for the room.  A task is "pending" from
\* asyncio.create_task until it first runs, "sleeping" in asyncio.sleep,
\* "expired" from the end of the sleep to the end of its broadcast,
\* "cancelling" from Task.cancel() to the delivery of CancelledError,
\* then "cancelled", or "finished" when it ran to its end.
LiveStates == {"pending", "sleeping", "expired"}

\* Task.cancel(): a task that has not run yet never runs (CancelledError is
\* thrown into the coroutine before its try), a task waiting in an await
\* gets CancelledError there, a task that is over is left alone.
TaskCancel(st) ==
    IF st = "pending" THEN "cancelled"
    ELSE IF st \in {"sleeping", "expired"} THEN "cancelling"
    ELSE st

\* the finally of _question_timer_task: if room_code in self.timers: del
TimerTaskFinally_keeps(t, entry) == entry
TimerTaskFinally(t, entry) == 0

\* _question_timer_task after its sleep: _get_room, _get_active_game and
\* _get_leaderboard, then one group_send of leaderboard_update.  A read that
\* raises (no Room row, no active Game; latest() raises DoesNotExist) is
\* logged and nothing is sent.
timer_broadcast ==
    IF room_exists /\ LatestActiveGame # 0 THEN <<"leaderboard_update">> ELSE <<>>

\* QuestionTimerManager.start_question_timer
StartQuestionTimer ==
    /\ Len(tasks) < MaxTimers
    /\ tasks' = Append(IF timers # 0
                       THEN [tasks EXCEPT ![timers] = TaskCancel(@)]
                       ELSE tasks,
                       "pending")
    /\ timers' = Len(tasks) + 1
    /\ UNCHANGED <<db, connections, req, room_lock, game_lock, net>>

\* QuestionTimerManager.cancel_timer
CancelTimer ==
    /\ timers # 0
    /\ tasks' = [tasks EXCEPT ![timers] = TaskCancel(@)]
    /\ timers' = 0
    /\ UNCHANGED <<db, connections, req, room_lock, game_lock, net>>

\* _question_timer_task, its first run: up to asyncio.sleep
TimerTaskRun(t) ==
    /\ t \in 1..Len(tasks) /\ tasks[t] = "pending"
    /\ tasks' = [tasks EXCEPT ![t] = "sleeping"]
    /\ UNCHANGED <<db, connections, req, room_lock, game_lock, net, timers>>

\* _question_timer_task: the sleep is over, the task reads room, game and
\* leaderboard
TimerTaskExpire(t) ==
    /\ t \in 1..Len(tasks) /\ tasks[t] = "sleeping"
    /\ tasks' = [tasks EXCEPT ![t] = "expired"]
    /\ UNCHANGED <<db, connections, req, room_lock, game_lock, net, timers>>

\* _question_timer_task: the reads and the broadcast (or the logged error
\* of a read), and the finally
TimerTaskFinish(t) ==
    /\ t \in 1..Len(tasks) /\ tasks[t] = "expired"
    /\ tasks' = [tasks EXCEPT ![t] = "finished"]
    /\ sent' = [NoOut EXCEPT !.publish = timer_broadcast]
    /\ timers' = TimerTaskFinally(t, timers)
    /\ UNCHANGED <<db, connections, req, room_lock, game_lock, conn, registry>>

\* _question_timer_task: CancelledError arrives at its await; the except
\* clause logs, then the finally
TimerTaskCancelled(t) ==
    /\ t \in 1..Len(tasks) /\ tasks[t] = "cancelling"
    /\ tasks' = [tasks EXCEPT ![t] = "cancelled"]
    /\ timers' = TimerTaskFinally(t, timers)
    /\ UNCHANGED <<db, connections, req, room_lock, game_lock, net>>

Init ==
    /\ room_exists = FALSE
    /\ room = NoRoom
    /\ players = <<>>
    /\ games = <<>>
    /\ questions = {}
    /\ answers = EmptyBag
    /\ scores = EmptyBag
    /\ connections = {}
    /\ req = [w \in Workers |-> Idle]
    /\ room_lock = 0
    /\ game_lock = [g \in GameIds |-> 0]
    /\ conn = [c \in Clients |-> "closed"]
    /\ registry = {}
    /\ sent = NoOut
    /\ tasks = <<>>
    /\ timers = 0

RoomNext ==
    \/ \E w \in Workers, p \in Players, mp \in MaxPlayersInputs : RoomCreate(w, p, mp)
    \/ \E w \in Workers, p \in Players : RoomJoinBegin(w, p)
    \/ \E w \in Workers : RoomJoinCommit(w)
    \/ \E w \in Workers, p \in Players : RoomLeaveBegin(w, p)
    \/ \E w \in Workers : RoomLeaveCommit(w)
    \/ \E c \in Clients, code \in RoomCodes : Connect(c, code)
    \/ \E c \in Clients : SendRoomState(c)
    \/ \E c \in Clients : SendGameState(c)
    \/ \E c \in Clients : Disconnect(c)

GameNext ==
    \/ \E w \in Workers, p \in Players, out \in QuestionSourceOutcomes :
           RoomStartGameBegin(w, p, out)
    \/ \E w \in Workers : RoomStartGameCommit(w)
    \/ \E w \in Workers, p \in Players, o \in {"start_ws", "next_ws"} : VerifyHost(w, p, o)
    \/ \E w \in Workers : StartGameBegin(w)
    \/ \E w \in Workers : StartGameCommit(w)
    \/ \E w \in Workers, g \in GameIds, o \in 0..(NumQuestions - 1), p \in Players,
          sub \in Submissions : SubmitAnswerView(w, g, o, p, sub)
    \/ \E w \in Workers, g \in GameIds, o \in 0..(NumQuestions - 1), p \in Players,
          sub \in Submissions : CheckAnswerBegin(w, p, g, o, sub)
    \/ \E w \in Workers : CheckAnswerResume(w)
    \/ \E w \in Workers : CheckAnswerCommit(w)
    \/ \E w \in Workers, g \in GameIds, p \in Players : NextQuestionBegin(w, g, p)
    \/ \E w \in Workers : NextQuestionResume(w)
    \/ \E w \in Workers : NextQuestionCommit(w)
    \/ \E w \in Workers : GetNextQuestionBegin(w)
    \/ \E w \in Workers : GetNextQuestionResume(w)
    \/ \E w \in Workers : GetNextQuestionCommit(w)
    \/ \E w \in Workers : Publish(w)
    \/ \E w \in Workers : DeadlockAbort(w)

\* The room's life before a game: creation, joins, leaves, connections.
Next == RoomNext

Spec == Init /\ [][Next]_vars

\* A game in a room that has filled up: players 1 and 2 are in the roster,
\* player 3 was a member when it connected and left before player 2 joined
\* (a state Spec reaches, see InitGameReached).
InitGame ==
    /\ room_exists = TRUE
    /\ room = [host |-> 1, status |-> "waiting", max_players |-> 2, current_game |-> 0]
    /\ players = <<[player |-> 1, is_ready |-> FALSE, score |-> 0],
                   [player |-> 2, is_ready |-> FALSE, score |-> 0]>>
    /\ games = <<>>
    /\ questions = {}
    /\ answers = EmptyBag
    /\ scores = EmptyBag
    /\ connections = Players
    /\ req = [w \in Workers |-> Idle]
    /\ room_lock = 0
    /\ game_lock = [g \in GameIds |-> 0]
    /\ conn = [c \in Clients |-> IF c \in Players THEN "open" ELSE "closed"]
    /\ registry = Players
    /\ sent = NoOut
    /\ tasks = <<>>
    /\ timers = 0

InitGameReached == ~InitGame

SpecGame == InitGame /\ [][GameNext]_vars

\* The host-only operations in a room whose roster changes: joins and leaves
\* together with the start of a game and the advance through its questions,
\* over HTTP and over the WebSocket, from the state InitGame.  (The room is
\* not created again: RoomLeaveView never deletes it.)
StartNext ==
    \/ \E w \in Workers, p \in Players : RoomJoinBegin(w, p)
    \/ \E w \in Workers : RoomJoinCommit(w)
    \/ \E w \in Workers, p \in Players : RoomLeaveBegin(w, p)
    \/ \E w \in Workers : RoomLeaveCommit(w)
    \/ \E w \in Workers, p \in Players, out \in QuestionSourceOutcomes :
           RoomStartGameBegin(w, p, out)
    \/ \E w \in Workers : RoomStartGameCommit(w)
    \/ \E w \in Workers, p \in Players, o \in {"start_ws", "next_ws"} : VerifyHost(w, p, o)
    \/ \E w \in Workers : StartGameBegin(w)
    \/ \E w \in Workers : StartGameCommit(w)
    \/ \E w \in Workers, g \in GameIds, p \in Players : NextQuestionBegin(w, g, p)
    \/ \E w \in Workers : NextQuestionResume(w)
    \/ \E w \in Workers : NextQuestionCommit(w)
    \/ \E w \in Workers : GetNextQuestionBegin(w)
    \/ \E w \in Workers : GetNextQuestionResume(w)
    \/ \E w \in Workers : GetNextQuestionCommit(w)
    \/ \E w \in Workers : Publish(w)
    \/ \E w \in Workers : DeadlockAbort(w)

SpecStart == InitGame /\ [][StartNext]_vars

\* ---------------------------------------------------------------- claims
\* C1: in every reachable state the roster of the room holds at most
\* max_players members, whatever the interleaving of room creation and joins.
RosterWithinMaxPlayers == room_exists => player_count <= room.max_players

\* a room whose roster a committed join has filled up to max_players
RosterAtMaxPlayers ==
    /\ room_exists
    /\ player_count = room.max_players
    /\ \E i \in 1..Len(players) : players[i].player # room.host

\* C2: in every reachable state there is at most one Answer row for a
\* question and a player.
AtMostOneAnswerPerQuestionAndPlayer ==
    \A a \in BagToSet(answers) :
        /\ CopiesIn(a, answers) = 1
        /\ \A b \in BagToSet(answers) :
               (a.question = b.question /\ a.player = b.player) => a = b

\* both members have answered one question of a game that is still active,
\* where a repeated submission of either still finds the game and the question
AnswersOfBothPlayers ==
    \E a \in BagToSet(answers) : \E b \in BagToSet(answers) :
        /\ a.question = b.question
        /\ a.player # b.player
        /\ games[a.question[1]].status = "active"

FailedStartLeavesNothing ==
    [][\A w \in Workers :
           (/\ req[w].op = "start_http"
            /\ req[w].res = "game_start_failed"
            /\ req'[w] = Idle)
           => /\ games' = games
              /\ questions' = questions
              /\ scores' = scores
              /\ room' = room]_vars

\* C5: in every reachable state the room has at most one Game whose status is
\* not completed.
AtMostOneActiveGame == Cardinality(ActiveGames) <= 1

\* C6: in every reachable state a room whose status is waiting has no active
\* Game.
WaitingRoomHasNoActiveGame == (room_exists /\ room.status = "waiting") => ActiveGames = {}

\* C7: the persisted current_question_index of a game never decreases, and
\* every advance request that succeeds, over HTTP or the WebSocket, adds
\* exactly one to it.
EachAdvanceAddsOne ==
    [][/\ \A g \in 1..Len(games) :
              games'[g].current_question_index >= games[g].current_question_index
       /\ \A w \in Workers :
              (/\ req[w].op \in {"next_http", "next_ws"}
               /\ req[w].pc = "txn"
               /\ req'[w].pc # "txn")
              => games'[req[w].game].current_question_index
                     = games[req[w].game].current_question_index + 1]_vars

\* C8: the advance that completes a Game completes its Room in the same
\* commit: no reachable state has a completed Game in a room that is not
\* completed.
CompletedGameHasCompletedRoom ==
    \A g \in 1..Len(games) : games[g].status = "completed" => room.status = "completed"

\* a game with questions that an advance on its last question has completed
GameCompletedByAdvance ==
    \E g \in 1..Len(games) : games[g].status = "completed" /\ total_questions(g) > 0

\* C9: an advance request by the host for a game that is completed returns
\* the completed result, as the request that completed the game did.
AdvanceOnCompletedReturnsCompleted ==
    \A g \in 1..Len(games) :
        games[g].status = "completed" => NextQuestionCheck(g, room.host) = "completed"

SubmissionInputs == {<<g, o, p, sub>> \in GameIds \X (0..(NumQuestions - 1)) \X Players \X Submissions :
                        g <= Len(games) /\ <<g, o>> \in questions}

AnswersOfGame(table, g) == {a \in BagToSet(table) : a.question[1] = g}
ScoresOfGame(table, g) == {sc \in BagToSet(table) : sc.game = g}

Commits(w, ops) == req[w].op \in ops /\ req[w].pc = "txn" /\ req'[w].pc # "txn"

\* C14: a Game is created only by a start request of the player who is the
\* host of the room when the Game is created.
GameCreatedOnlyByHost ==
    [][Len(games') > Len(games) =>
           \E w \in Workers : /\ Commits(w, {"start_http", "start_ws"})
                              /\ req[w].player = room.host]_vars

\* C15: no Game is created while the roster holds fewer than MIN_PLAYERS
\* players.
GameCreatedOnlyWithMinPlayers ==
    [][Len(games') > Len(games) => player_count >= MIN_PLAYERS]_vars

\* C16: a start request of the host on a room that is not waiting fails with
\* GameAlreadyStarted.
StartOnStartedRoomIsAlreadyStarted ==
    (room_exists /\ room.status # "waiting")
        => RoomStartGameCheck(room.host) = "game_already_started"

GameChangedOnlyByHost ==
    [][\A g \in 1..Len(games) :
           games'[g] # games[g] =>
               \E w \in Workers : /\ Commits(w, {"next_http", "next_ws"})
                                  /\ req[w].game = g
                                  /\ req[w].player = room.host]_vars

\* C19: a join on a room that is not waiting is refused with
\* GameAlreadyStarted, a join on a full waiting room with RoomFull, and no
\* join is on its way to insert a membership into such a room.
JoinRefusedWhenStartedOrFull ==
    room_exists =>
        /\ \A p \in Players :
               /\ room.status # "waiting" => RoomJoinCheck(p) = "game_already_started"
               /\ (room.status = "waiting" /\ is_full) => RoomJoinCheck(p) = "room_full"
        /\ \A w \in Workers :
               (req[w].op = "join" /\ req[w].pc = "txn")
                   => (room.status = "waiting" /\ ~is_full)

\* a full room that is not waiting any more
StartedRoomIsFull == room_exists /\ room.status # "waiting" /\ is_full

\* C20: a join of a player who is in the roster of a waiting room succeeds,
\* also when the room is at max_players.
MemberJoinSucceeds ==
    \A p \in Players :
        (room_exists /\ room.status = "waiting" /\ InRoom(p)) => RoomJoinCheck(p) = "ok"

\* C21: the host of an existing room is a member of its roster; no room
\* exists with an empty roster or with a host outside its roster.
HostIsMemberOfRoster == room_exists => (players # <<>> /\ InRoom(room.host))

\* C22: the leave of the last member of a room that has an active game
\* deletes the room with its Game, Question, Answer and GameScore rows, and
\* leaves no connection in the group of the room to deliver a broadcast to.
LastLeaveDeletesRoomAndGames ==
    [][\A w \in Workers :
           (Commits(w, {"leave"}) /\ ActiveGames # {} /\ players' = <<>>) =>
               /\ ~room_exists'
               /\ games' = <<>> /\ questions' = {}
               /\ answers' = EmptyBag /\ scores' = EmptyBag
               /\ connections' = {}]_vars

\* C23: a leave made while the room has an active game keeps the membership
\* row of the player and its score; a membership row is deleted only by a
\* leave made while the room is waiting.
LeaveDuringGameKeepsMembership ==
    [][/\ \A w \in Workers :
              (Commits(w, {"leave"}) /\ ActiveGames # {}) =>
                  \E i \in 1..Len(players), j \in 1..Len(players') :
                      /\ players[i].player = req[w].player
                      /\ players'[j].player = req[w].player
                      /\ players'[j].score = players[i].score
       /\ Len(players') < Len(players) =>
              \E w \in Workers : Commits(w, {"leave"}) /\ room.status = "waiting"]_vars

\* The keys of the question dictionary in the events the handlers hand to
\* group_send: game_started of RoomStartGameView.post and of the consumer's
\* start_game, next_question of the consumer's get_next_question.
RoomStartGameQuestionKeys == {"id", "order", "items", "options", "hint", "time_limit"}
StartGameQuestionKeys == {"id", "order", "text", "items", "time_limit"}
GetNextQuestionKeys == {"id", "order", "text", "items", "hint", "time_limit",
                        "correct_answer"}

\* the keys of the question in the event of request r
EventQuestionKeys(r) ==
    IF r.event = "game_started"
    THEN (IF r.op = "start_http" THEN RoomStartGameQuestionKeys ELSE StartGameQuestionKeys)
    ELSE IF r.event = "next_question" THEN GetNextQuestionKeys
    ELSE {}

SubscribedOnlyIfMember ==
    [][\A c \in Clients :
           LET attempt == conn[c] = "closed" /\ sent' # sent /\ sent'.to = c
               joined == \/ c \in connections' \ connections
                         \/ c \in registry' \ registry
                         \/ conn[c] = "closed" /\ conn'[c] # "closed"
                         \/ attempt /\ sent'.publish # <<>>
           IN /\ joined => /\ attempt
                           /\ room_exists /\ sent'.room_code = "room"
                           /\ c \in Players /\ InRoom(c)
              /\ (attempt /\ ~joined) => (sent'.close # 0 /\ sent'.msgs = <<>>)]_vars

\* a connect has just been refused while another client is in the group
ConnectRefusedBesideSubscriber == sent.close # 0 /\ connections # {}

\* Connections in a room whose game starts and advances: the room of
\* InitGame before any client has connected, then connects, disconnects
\* and leaves together with the HTTP start and the HTTP advance.
InitConn ==
    /\ room_exists = TRUE
    /\ room = [host |-> 1, status |-> "waiting", max_players |-> 2, current_game |-> 0]
    /\ players = <<[player |-> 1, is_ready |-> FALSE, score |-> 0],
                   [player |-> 2, is_ready |-> FALSE, score |-> 0]>>
    /\ games = <<>>
    /\ questions = {}
    /\ answers = EmptyBag
    /\ scores = EmptyBag
    /\ connections = {}
    /\ req = [w \in Workers |-> Idle]
    /\ room_lock = 0
    /\ game_lock = [g \in GameIds |-> 0]
    /\ conn = [c \in Clients |-> "closed"]
    /\ registry = {}
    /\ sent = NoOut
    /\ tasks = <<>>
    /\ timers = 0

ConnNext ==
    \/ \E c \in Clients, code \in RoomCodes : Connect(c, code)
    \/ \E c \in Clients : SendRoomState(c)
    \/ \E c \in Clients : SendGameState(c)
    \/ \E c \in Clients : Disconnect(c)
    \/ \E w \in Workers, p \in Players : RoomLeaveBegin(w, p)
    \/ \E w \in Workers : RoomLeaveCommit(w)
    \/ \E w \in Workers, p \in Players, o \in QuestionSourceOutcomes :
           RoomStartGameBegin(w, p, o)
    \/ \E w \in Workers : RoomStartGameCommit(w)
    \/ \E w \in Workers, g \in GameIds, p \in Players : NextQuestionBegin(w, g, p)
    \/ \E w \in Workers : NextQuestionResume(w)
    \/ \E w \in Workers : NextQuestionCommit(w)

SpecConn == InitConn /\ [][ConnNext]_vars

\* C26: the connect of an accepted client sends it a room_state_update with
\* the roster, the host and the status of the room as committed when it is
\* read, and then, if the room has an active game when that is read, an
\* initial_state with the status, the index, the number of questions and
\* the current question (none if the game has none) of the latest active
\* game, and nothing if the room has no active game.
AcceptedConnectionGetsSnapshots ==
    [][\A c \in Clients :
           /\ (conn[c] = "accepted" /\ conn'[c] # "accepted") =>
                  /\ conn'[c] = "room_sent"
                  /\ sent'.to = c /\ sent'.publish = <<>> /\ Len(sent'.msgs) = 1
                  /\ sent'.msgs[1].type = "room_state_update"
                  /\ sent'.msgs[1].room_state =
                         [found |-> TRUE, status |-> room.status, host |-> room.host,
                          roster |-> {players[i] : i \in 1..Len(players)}]
           /\ (conn[c] = "room_sent" /\ conn'[c] # "room_sent") =>
                  /\ conn'[c] = "open"
                  /\ sent'.to = c /\ sent'.publish = <<>>
                  /\ IF ActiveGames = {} THEN sent'.msgs = <<>>
                     ELSE \E g \in ActiveGames :
                            /\ \A h \in ActiveGames : h <= g
                            /\ Len(sent'.msgs) = 1
                            /\ sent'.msgs[1].type = "initial_state"
                            /\ LET gs == sent'.msgs[1].game_state
                                   idx == games[g].current_question_index
                               IN /\ gs.game_status = "active"
                                  /\ gs.current_question_index = idx
                                  /\ gs.total_questions = total_questions(g)
                                  /\ gs.current_question =
                                         (IF idx < total_questions(g) THEN idx ELSE -1)
           /\ conn'[c] = "open" => conn[c] \in {"room_sent", "open"}]_vars

\* a client whose connect has just sent it the state of a game that has
\* been advanced to its second question
SnapshotOfAdvancedGame ==
    /\ sent.msgs # <<>>
    /\ sent.msgs[1].type = "initial_state"
    /\ sent.msgs[1].game_state.current_question_index = 1
    /\ conn[sent.to] = "open"

\* C27: the disconnect of a connection removes it from the group of the
\* room and from the connection registry and publishes one player_left, and
\* leaves every row of the store as it was: roster, host, room status,
\* games, questions, answers and scores.
DisconnectChangesNoStoredState ==
    [][\A c \in Clients :
           (conn[c] = "open" /\ conn'[c] = "closed") =>
               /\ c \in connections /\ connections' = connections \ {c}
               /\ c \in registry /\ registry' = registry \ {c}
               /\ sent'.to = c /\ sent'.publish = <<"player_left">> /\ sent'.msgs = <<>>
               /\ UNCHANGED db]_vars

\* a client has just disconnected from a room that has an active game
DisconnectedDuringGame ==
    /\ sent.publish = <<"player_left">>
    /\ conn[sent.to] = "closed"
    /\ ActiveGames # {}

\* The frames of connected clients in a room whose game starts over HTTP:
\* every connected client sends every frame.
MsgNext ==
    \/ \E c \in Clients : ReceiveBinary(c)
    \/ \E c \in Clients, f \in TextFrames, hint \in BOOLEAN : ReceiveText(c, f, hint)
    \/ \E c \in Clients, f \in TextFrames : HandleSubmitAnswer(c, f)
    \/ \E c \in Clients : HandleStartGame(c)
    \/ \E c \in Clients : HandleNextQuestion(c)
    \/ \E w \in Workers, p \in Players, o \in QuestionSourceOutcomes :
           RoomStartGameBegin(w, p, o)
    \/ \E w \in Workers : RoomStartGameCommit(w)

\* the room of InitGame with its two members connected
InitMsg ==
    /\ room_exists = TRUE
    /\ room = [host |-> 1, status |-> "waiting", max_players |-> 2, current_game |-> 0]
    /\ players = <<[player |-> 1, is_ready |-> FALSE, score |-> 0],
                   [player |-> 2, is_ready |-> FALSE, score |-> 0]>>
    /\ games = <<>>
    /\ questions = {}
    /\ answers = EmptyBag
    /\ scores = EmptyBag
    /\ connections = Roster
    /\ req = [w \in Workers |-> Idle]
    /\ room_lock = 0
    /\ game_lock = [g \in GameIds |-> 0]
    /\ conn = [c \in Clients |-> IF c \in Roster THEN "open" ELSE "closed"]
    /\ registry = Roster
    /\ sent = NoOut
    /\ tasks = <<>>
    /\ timers = 0

SpecMsg == InitMsg /\ [][MsgNext]_vars

\* a reply that carries an error message
IsErrorReply(r) == \E i \in 1..Len(r.msgs) : r.msgs[i].type = "error"

\* the frames of client c that the handlers refuse: text that is not JSON,
\* an unknown type, an empty answer, a missing question id, a question that
\* is not one of the one active game, a start or an advance by a client who
\* is not the host, a start while a game is active, an advance without an
\* active game
RefusedFrame(c, f) ==
    \/ ~f.json
    \/ f.type = "unknown"
    \/ /\ f.type = "submit_answer"
       /\ \/ Strip(f.sub.answer) = <<>>
          \/ f.question = NoQuestion
          \/ f.question \notin questions
          \/ ActiveGames # {f.question[1]}
    \/ f.type \in {"start_game", "next_question"} /\ room.host # c
    \/ f.type = "start_game" /\ ActiveGames # {}
    \/ f.type = "next_question" /\ ActiveGames = {}

\* C28: what a consumer sends with an error message goes to its own client
\* and nothing is published to the group with it, and every refused frame
\* of a connected client is answered with such an error.
ErrorRepliesAreNotPublished ==
    /\ IsErrorReply(sent) => sent.publish = <<>>
    /\ \A c \in Clients, f \in TextFrames :
           (conn[c] = "open" /\ RefusedFrame(c, f)) =>
               /\ IsErrorReply(receive(c, f, TRUE))
               /\ receive(c, f, TRUE).to = c
               /\ receive(c, f, TRUE).publish = <<>>

\* a client has just been sent an error while a game is active
ErrorReplyDuringGame == IsErrorReply(sent) /\ ActiveGames # {}

\* C29: no frame of a client closes its connection: after every frame the
\* connection is open and in the group of the room, and a ping is answered
\* with a pong.
NoFrameClosesConnection ==
    [][\A c \in Clients :
           conn[c] = "open" =>
               /\ conn'[c] = "open"
               /\ c \in connections'
               /\ receive(c, Frame("ping"), TRUE).msgs = <<Msg("pong")>>]_vars

\* The timer manager of one room, driven by its callers and by the event
\* loop: starts, cancels, and the steps of the timer tasks.
TimerNext ==
    \/ StartQuestionTimer
    \/ CancelTimer
    \/ \E t \in 1..MaxTimers : TimerTaskRun(t)
    \/ \E t \in 1..MaxTimers : TimerTaskExpire(t)
    \/ \E t \in 1..MaxTimers : TimerTaskFinish(t)
    \/ \E t \in 1..MaxTimers : TimerTaskCancelled(t)

SpecTimer == Init /\ [][TimerNext]_vars

\* C30: at most one timer task of the room is live (neither cancelled nor
\* finished), and the entry of the room in the timer registry, when there is
\* one, is that live task.
AtMostOneLiveTimer ==
    /\ Cardinality({t \in 1..Len(tasks) : tasks[t] \in LiveStates}) <= 1
    /\ timers # 0 => tasks[timers] \in LiveStates

\* the questions that are current in an active game, in the Game rows gs and
\* the Question rows qs
CurrentQuestions(gs, qs) ==
    {<<g, gs[g].current_question_index>> : g \in {x \in 1..Len(gs) : gs[x].status = "active"}}
        \cap qs

ExpiryNext ==
    \/ TimerNext
    \/ \E w \in Workers, p \in Players, o \in QuestionSourceOutcomes :
           RoomStartGameBegin(w, p, o)
    \/ \E w \in Workers : RoomStartGameCommit(w)
    \/ \E c \in Clients : HandleNextQuestion(c)

SpecExpiry == InitMsg /\ [][ExpiryNext]_vars

\* C32: a timer expiry (the end of the sleep of a timer task, and the step
\* that ends the task) publishes at most one leaderboard_update and nothing
\* else, sends nothing to a single client, leaves every row of the store as
\* it was (the index and status of the games, the status of the room, all
\* scores), and when the task has ended the timer registry has no entry for
\* it.
ExpiryOnlyBroadcasts ==
    [][\A t \in 1..Len(tasks) :
          /\ (tasks[t] = "sleeping" /\ tasks'[t] = "expired") =>
                /\ db' = db
                /\ sent' = sent
          /\ (tasks[t] = "expired" /\ tasks'[t] = "finished") =>
                /\ db' = db
                /\ sent'.publish \in {<<>>, <<"leaderboard_update">>}
                /\ sent'.msgs = <<>> /\ sent'.close = 0
                /\ timers' # t]_vars

\* a timer task that was the registered one has expired during an active
\* game and published the leaderboard
ExpiredTimerBroadcast ==
    /\ \E t \in 1..Len(tasks) : tasks[t] = "finished"
    /\ sent.publish = <<"leaderboard_update">>
    /\ ActiveGames # {}
    /\ timers = 0

\* ------------------------------------------------------------ rankings
\* GameScore.objects.filter(game=game).order_by('-total_score', 'created_at')
\* as a sequence; the rows of a game are created in the order of their
\* players.
ScoresOrdered(g) ==
    LET rows == {s \in BagToSet(scores) : s.game = g}
        n == Cardinality(rows)
    IN CHOOSE seq \in [1..n -> rows] :
          /\ \A i, j \in 1..n : i # j => seq[i] # seq[j]
          /\ \A i, j \in 1..n : i < j =>
                \/ seq[i].total_score > seq[j].total_score
                \/ /\ seq[i].total_score = seq[j].total_score
                   /\ seq[i].player <= seq[j].player

\* The body of the ranking loop, up to the assignment of the rank:
\* previous_score is <<>> for None.
NextRank_dense(current_rank, rank_counter, previous_score, total_score) ==
    IF previous_score # <<>> /\ total_score < previous_score[1]
    THEN current_rank + 1 ELSE current_rank
NextRank(current_rank, rank_counter, previous_score, total_score) ==
    IF previous_score # <<>> /\ total_score < previous_score[1]
    THEN rank_counter ELSE current_rank

\* the loop over the ordered scores: the rows with their ranks assigned
RECURSIVE RankLoop(_, _, _, _)
RankLoop(seq, current_rank, previous_score, rank_counter) ==
    IF rank_counter > Len(seq) THEN {}
    ELSE LET score == seq[rank_counter]
             rank == NextRank(current_rank, rank_counter, previous_score, score.total_score)
         IN {[score EXCEPT !.rank = rank]}
                \cup RankLoop(seq, rank, <<score.total_score>>, rank_counter + 1)

\* the GameScore table once the rows of game g have been saved with the
\* ranks of the loop
ScoresRanked(g) ==
    LET others == {s \in BagToSet(scores) : s.game # g}
    IN SetToBag(others \cup RankLoop(ScoresOrdered(g), 1, <<>>, 1))

\* GameLeaderboardView.get: the rows whose rank changed are saved by
\* bulk_update, the response lists the rows with their ranks.
GameLeaderboardView(g) ==
    /\ g \in 1..Len(games)
    /\ scores' = ScoresRanked(g)
    /\ UNCHANGED <<room_exists, room, players, games, questions, answers,
                   connections, req, room_lock, game_lock, net, clock>>

\* GameService.calculate_final_rankings: every row is saved with its rank.
CalculateFinalRankings(g) ==
    /\ g \in 1..Len(games)
    /\ games[g].status = "completed"
    /\ scores' = ScoresRanked(g)
    /\ UNCHANGED <<room_exists, room, players, games, questions, answers,
                   connections, req, room_lock, game_lock, net, clock>>

\* the totals a GameScore row is given: the sums of the points of up to two
\* answers
ScoreTotals ==
    {WRONG_ANSWER_WITH_HINT_POINTS, WRONG_ANSWER_POINTS,
     CORRECT_ANSWER_WITH_HINT_POINTS, CORRECT_ANSWER_POINTS,
     CORRECT_ANSWER_POINTS + CORRECT_ANSWER_POINTS}

\* A game with any GameScore rows: one row at most for each player, with any
\* of the totals, not yet ranked; the game is active or completed.
InitRank ==
    /\ room_exists = TRUE
    /\ room \in {[host |-> 1, status |-> st, max_players |-> NumPlayers, current_game |-> 1] :
                    st \in {"in_progress", "completed"}}
    /\ players = [p \in Players |-> [player |-> p, is_ready |-> FALSE, score |-> 0]]
    /\ games = <<[status |-> IF room.status = "completed" THEN "completed" ELSE "active",
                  current_question_index |-> 0]>>
    /\ questions = {<<1, 0>>}
    /\ answers = EmptyBag
    /\ \E ps \in SUBSET Players : \E tot \in [ps -> ScoreTotals] :
          scores = SetToBag({[NewScore(1, p) EXCEPT !.total_score = tot[p]] : p \in ps})
    /\ connections = {}
    /\ req = [w \in Workers |-> Idle]
    /\ room_lock = 0
    /\ game_lock = [g \in GameIds |-> 0]
    /\ conn = [c \in Clients |-> "closed"]
    /\ registry = {}
    /\ sent = NoOut
    /\ tasks = <<>>
    /\ timers = 0

RankNext ==
    \/ \E g \in GameIds : GameLeaderboardView(g)
    \/ \E g \in GameIds : CalculateFinalRankings(g)

SpecRank == InitRank /\ [][RankNext]_vars

\* C33: when the leaderboard endpoint or calculate_final_rankings has ranked
\* the GameScore rows of a game, the rank of each row is 1 plus the number
\* of rows of the game with a strictly greater total_score: equal totals
\* share a rank, and the rank after a tie is the 1-based position of the row.
RankIsOnePlusGreaterRows ==
    [][\A s \in BagToSet(scores') :
          s.rank = 1 + Cardinality({x \in BagToSet(scores') :
                                       x.game = s.game /\ x.total_score > s.total_score})]_vars

\* three ranked rows, two of them tied at the top: ranks 1, 1, 3
TiedRowsShareRank ==
    \E a, b, c \in BagToSet(scores) :
        /\ a.player # b.player
        /\ a.total_score = b.total_score /\ b.total_score > c.total_score
        /\ a.rank = 1 /\ b.rank = 1 /\ c.rank = 3

\* ------------------------------------------------- submissions, both paths
\* SubmitAnswerView.post as one step of the player's HTTP client, with its
\* response: the outcome of SubmitAnswerCheck, recorded in sent.  The view
\* writes the Answer and the GameScore; it has no statement that touches the
\* RoomPlayer row.
SubmitAnswerPost(p, g, o, sub) ==
    /\ g \in 1..Len(games)
    /\ <<g, o>> \in questions
    /\ game_lock[g] = 0
    /\ sent' = Sends(p, <<[Msg("submit_response") EXCEPT
                              !.message = SubmitAnswerCheck(g, o, p, sub)]>>, <<>>)
    /\ IF SubmitAnswerCheck(g, o, p, sub) = "ok"
       THEN /\ answers' = answers (+) SetToBag({NewAnswer(g, o, p, sub)})
            /\ scores' = ScoresAfter(g, p, NewAnswer(g, o, p, sub))
       ELSE UNCHANGED <<answers, scores>>
    /\ UNCHANGED <<room_exists, room, players, games, questions, connections,
                   req, room_lock, game_lock, conn, registry, clock>>

\* A game that is started over HTTP and advanced by the host's consumer,
\* with the submissions of the members over the WebSocket and over HTTP.
MirrorNext ==
    \/ \E w \in Workers, p \in Players, o \in QuestionSourceOutcomes :
           RoomStartGameBegin(w, p, o)
    \/ \E w \in Workers : RoomStartGameCommit(w)
    \/ \E c \in Clients : HandleNextQuestion(c)
    \/ \E c \in Clients, f \in TextFrames : HandleSubmitAnswer(c, f)
    \/ \E p \in Players, q \in QuestionIds, sub \in Submissions :
           SubmitAnswerPost(p, q[1], q[2], sub)

SpecMirror == InitMsg /\ [][MirrorNext]_vars

\* a submission that is to succeed: a roster member's first answer, in time
\* and not empty, to the current question of the one active game
ValidSubmission(p, g, o, sub) ==
    /\ InRoom(p)
    /\ ActiveGames = {g}
    /\ <<g, o>> \in questions /\ o = games[g].current_question_index
    /\ ExistingAnswers(g, o, p) = {}
    /\ Strip(sub.answer) # <<>>
    /\ sub.time_taken <= TIME_LIMIT_SECONDS

AllAnswered(ans, g, o) ==
    /\ Roster # {}
    /\ \A p \in Roster : \E a \in BagToSet(ans) : a.question = <<g, o>> /\ a.player = p

SubmitAnswerCommitted(c, f) ==
    /\ conn[c] = "open"
    /\ f.type = "submit_answer"
    /\ room_lock = 0 /\ GameLocksFree
    /\ handle_submit_answer(c, f).publish # <<>>
    /\ LET g == f.question[1]
           a == NewAnswer(g, f.question[2], c, [f.sub EXCEPT !.answer = Strip(f.sub.answer)])
           total == update_score(GetOrCreateScore(g, c), a).total_score
       IN /\ answers' = answers (+) SetToBag({a})
          /\ scores' = ScoresAfter(g, c, a)
          /\ players' = [i \in 1..Len(players) |->
                           IF players[i].player = c
                           THEN [players[i] EXCEPT !.score = total]
                           ELSE players[i]]
    /\ conn' = [conn EXCEPT ![c] = "sending"]
    /\ UNCHANGED <<room_exists, room, games, questions, connections, req, room_lock,
                   game_lock, registry, sent, clock>>

\* handle_submit_answer, its group_send of answer_submitted
SendAnswerSubmitted(c) ==
    /\ conn[c] = "sending"
    /\ conn' = [conn EXCEPT ![c] = "open"]
    /\ sent' = Sends(c, <<>>, <<"answer_submitted">>)
    /\ UNCHANGED <<db, connections, req, room_lock, game_lock, registry, clock>>

\* A game that is started over HTTP, with the submissions of the members and
\* the advances of the host over the WebSocket; a consumer's broadcast may
\* follow its commit at once or after steps of the other consumers.
OrderNext ==
    \/ \E w \in Workers, p \in Players, o \in QuestionSourceOutcomes :
           RoomStartGameBegin(w, p, o)
    \/ \E w \in Workers : RoomStartGameCommit(w)
    \/ \E c \in Clients : HandleNextQuestion(c)
    \/ \E c \in Clients, f \in TextFrames : HandleSubmitAnswer(c, f)
    \/ \E c \in Clients, f \in TextFrames : SubmitAnswerCommitted(c, f)
    \/ \E c \in Clients : SendAnswerSubmitted(c)

SpecOrder == InitMsg /\ [][OrderNext]_vars

NoLockCycle == \A w, v \in Workers : ~Deadlocked(w, v)

\* the Answer rows of player p for the questions of game g, their number
\* and the sum of their points_earned (each row with its copies)
AnswersOfPlayer(g, p) ==
    {a \in BagToSet(answers) : a.question[1] = g /\ a.player = p}

RECURSIVE CountRows(_)
CountRows(rows) ==
    IF rows = {} THEN 0
    ELSE LET a == CHOOSE x \in rows : TRUE
         IN CopiesIn(a, answers) + CountRows(rows \ {a})

RECURSIVE SumPoints(_)
SumPoints(rows) ==
    IF rows = {} THEN 0
    ELSE LET a == CHOOSE x \in rows : TRUE
         IN CopiesIn(a, answers) * a.points_earned + SumPoints(rows \ {a})

\* C39: in every reachable state each GameScore row agrees with the Answer
\* rows of its player for the questions of its game: total_score is the sum
\* of their points_earned, correct_answers the number of those that are
\* correct, and correct_answers + wrong_answers the number of all of them.
ScoreMatchesAnswers ==
    \A s \in BagToSet(scores) :
        LET rows == AnswersOfPlayer(s.game, s.player)
        IN /\ s.total_score = SumPoints(rows)
           /\ s.correct_answers = CountRows({a \in rows : a.is_correct})
           /\ s.correct_answers + s.wrong_answers = CountRows(rows)

\* a GameScore row that counts a correct and a wrong answer of its player
ScoreOfCorrectAndWrongAnswer ==
    \E s \in BagToSet(scores) :
        /\ s.correct_answers = 1 /\ s.wrong_answers = 1
        /\ s.total_score = CORRECT_ANSWER_POINTS + WRONG_ANSWER_WITH_HINT_POINTS

\* ------------------------------------------------------- run of a game
\* A game from its start over HTTP to its completion: the advance requests
\* over HTTP and over the WebSocket, with the aborts of deadlocked
\* transactions.
AdvanceNext ==
    \/ \E w \in Workers, p \in Players, out \in QuestionSourceOutcomes :
           RoomStartGameBegin(w, p, out)
    \/ \E w \in Workers : RoomStartGameCommit(w)
    \/ \E w \in Workers, g \in GameIds, p \in Players : NextQuestionBegin(w, g, p)
    \/ \E w \in Workers : NextQuestionResume(w)
    \/ \E w \in Workers : NextQuestionCommit(w)
    \/ \E w \in Workers, p \in Players : VerifyHost(w, p, "next_ws")
    \/ \E w \in Workers : GetNextQuestionBegin(w)
    \/ \E w \in Workers : GetNextQuestionResume(w)
    \/ \E w \in Workers : GetNextQuestionCommit(w)
    \/ \E w \in Workers : Publish(w)
    \/ \E w \in Workers : DeadlockAbort(w)

\* Scheduling: a transaction that holds what it needs takes its next step
\* and the database ends a deadlock (weak fairness); a statement that waits
\* for a row lock gets the lock when it is released again and again (the
\* lock queue: strong fairness); and the host keeps sending the HTTP advance
\* request for an active game.
AdvanceFairness ==
    /\ \A w \in Workers :
          /\ WF_vars(RoomStartGameCommit(w))
          /\ SF_vars(NextQuestionResume(w))
          /\ WF_vars(NextQuestionCommit(w))
          /\ SF_vars(GetNextQuestionBegin(w))
          /\ SF_vars(GetNextQuestionResume(w))
          /\ WF_vars(GetNextQuestionCommit(w))
          /\ WF_vars(Publish(w))
          /\ WF_vars(DeadlockAbort(w))
    /\ \A g \in GameIds :
          SF_vars(\E w \in Workers : NextQuestionBegin(w, g, room.host))

SpecAdvance == InitGame /\ [][AdvanceNext]_vars /\ AdvanceFairness

====
